---- MODULE Spec2Model ----
(***************************************************************************)
(* Tool-invocation layer of Selector_ReACT_Agents:                         *)
(*   netbox_agent.py                    validate_tool_input,               *)
(*                                      NetBoxController, get_data_directly,*)
(*                                      delete_data_handler                *)
(*   opencve_agent.py                   fetch_cves_from_opencve            *)
(*   selector_natural_language_agent.py SelectorAPI.ask, ask_selector      *)
(*   selector_data_agent.py             SelectorRawDataAPI.ask,            *)
(*                                      ask_selector_raw                   *)
(*                                                                         *)
(* One tool call runs at a time (the agent executor is synchronous).  The  *)
(* state is the running call's locals, its position, and the trace of the  *)
(* HTTP calls and blocking sleeps it has made.                             *)
(***************************************************************************)
EXTENDS Integers, Sequences, FiniteSets, TLC

VARIABLES
    op,             \* the running tool function ("idle" before any call)
    pc,             \* position inside it
    arg,            \* the argument the function was called with
    input_data,     \* validate_tool_input: local input_data; callers: its return value
    expected_keys,  \* validate_tool_input: parameter (list of key names)
    max_retries,    \* validate_tool_input: parameter
    retries,        \* validate_tool_input: local counter
    vret,           \* source line of the return statement validate_tool_input left by
    attempt,        \* loop variable of the retry loops
    trace,          \* HTTP calls and time.sleep calls made so far, in order
    reply,          \* what the last callee (HTTP helper, ask) handed back
    result          \* value returned by the running tool function

vars == <<op, pc, arg, input_data, expected_keys, max_retries, retries, vret,
          attempt, trace, reply, result>>

-----------------------------------------------------------------------------
(* Python values.  t is the type, s the text of a str (or the digits of an *)
(* int), kv the items of a dict.                                           *)

EmptyMap == [k \in {} |-> ""]

Str(s) == [t |-> "str", s |-> s, kv |-> EmptyMap]

PyInt(s) == [t |-> "int", s |-> s, kv |-> EmptyMap]

Dict(f) == [t |-> "dict", s |-> "", kv |-> f]

None == [t |-> "none", s |-> "", kv |-> EmptyMap]

\* a list: kv maps the index ("0", "1", ...) to the item
List(items) ==
    [t |-> "list", s |-> "",
     kv |-> [k \in {ToString(i - 1) : i \in 1..Len(items)} |->
                items[CHOOSE i \in 1..Len(items) : ToString(i - 1) = k]]]

\* the items of a list, in order
Items(v) == [i \in 1..Cardinality(DOMAIN v.kv) |-> v.kv[ToString(i - 1)]]

\* the list [1, 2]
PyList == List(<<PyInt("1"), PyInt("2")>>)

\* d.get(key, default)
Get(d, key, default) == IF key \in DOMAIN d.kv THEN d.kv[key] ELSE default

\* an exception that left the function instead of a return value
Raised(s) == [t |-> "raise", s |-> s, kv |-> EmptyMap]

\* raised by json.loads on text that is not JSON
JSONDecodeError == Raised("JSONDecodeError")

NotReturned == [t |-> "pending", s |-> "", kv |-> EmptyMap]

\* Python truthiness (`if x`, `not x`)
Truthy(v) ==
    CASE v.t = "str"  -> v.s # ""
      [] v.t = "int"  -> v.s # "0"
      [] v.t = "dict" -> DOMAIN v.kv # {}
      [] v.t = "list" -> DOMAIN v.kv # {}
      [] v.t = "none" -> FALSE
      [] OTHER        -> TRUE

\* `key in d` for a dict d
HasKey(d, key) == d.t = "dict" /\ key \in DOMAIN d.kv

\* the elements of a list, as a set
Range(seq) == {seq[i] : i \in 1..Len(seq)}

-----------------------------------------------------------------------------
(* Argument payloads                                                       *)

PayloadScenario ==
    Dict(("api_url" :> Str("/api/dcim/interfaces/")) @@ ("extra" :> Str("x")))

PayloadExact == Dict("api_url" :> Str("/api/dcim/interfaces/"))

PayloadThree ==
    Dict(("api_url" :> Str("/api/circuits/providers/"))
         @@ ("payload" :> Dict("name" :> Str("Bell Canada")))
         @@ ("extra" :> Str("x")))

PayloadForeign == Dict(("extra" :> Str("x")) @@ ("other" :> Str("y")))

PayloadEmpty == Dict(EmptyMap)

TextScenario == "{\"api_url\": \"/api/dcim/interfaces/\", \"extra\": \"x\"}"

TextExact == "{\"api_url\": \"/api/dcim/interfaces/\"}"

TextGarbage == "api_url=/api/dcim/interfaces/"

TextList == "[1, 2]"

TextNumber == "42"

TextString == "\"abc\""

TextNull == "null"

ProvidersUrl == "/api/circuits/providers/"

BellCanada == Dict("name" :> Str("Bell Canada"))

DeleteBell == Dict(("api_url" :> Str(ProvidersUrl)) @@ ("payload" :> BellCanada))

TextDeleteBell ==
    "{\"api_url\": \"/api/circuits/providers/\", \"payload\": {\"name\": \"Bell Canada\"}}"

\* a fetch_cves_from_opencve argument as a mapping and as the text the agent
\* writes with single quotes
CveQuery(vendor, version) == Dict(("vendor" :> Str(vendor)) @@ ("version" :> Str(version)))

TextCveQuoted == "{'vendor': 'Juniper Networks', 'version': '21.4.1'}"

TextCveJson == "{\"vendor\": \"Juniper Networks\", \"version\": \"21.4.1\"}"

\* an email_agent_func argument as a mapping and as text
EmailFull ==
    Dict(("recipient" :> Str("noc@example.com")) @@ ("subject" :> Str("Device health"))
         @@ ("message" :> Str("All devices are healthy.")))

TextEmail ==
    "{\"recipient\": \"noc@example.com\", \"subject\": \"Device health\", \"message\": \"All devices are healthy.\"}"

Texts == {TextScenario, TextExact, TextGarbage, TextList, TextNumber, TextString, TextNull}

\* json.loads on the texts above
JsonLoads(s) ==
    CASE s = TextScenario -> PayloadScenario
      [] s = TextExact    -> PayloadExact
      [] s = TextList     -> PyList
      [] s = TextNumber   -> PyInt("42")
      [] s = TextString   -> Str("abc")
      [] s = TextNull     -> None
      [] s = TextDeleteBell -> DeleteBell
      [] s = TextEmail    -> EmailFull
      [] s = TextCveJson  -> CveQuery("Juniper Networks", "21.4.1")
      [] OTHER            -> JSONDecodeError

Payloads ==
    {PayloadScenario, PayloadExact, PayloadThree, PayloadForeign, PayloadEmpty,
     None, PyList}
    \cup {Str(s) : s \in Texts}

\* expected_keys arguments; <<>> stands for both None (the default) and []
ExpectedKeySets ==
    {<<>>, <<"api_url">>, <<"api_url", "payload">>, <<"api_url", "api_url">>, <<"name">>}

DefaultMaxRetries == 5

MaxRetriesBound == 3

MaxRetriesValues == 0..MaxRetriesBound \cup {DefaultMaxRetries}

-----------------------------------------------------------------------------
(* The network: what one HTTP call can come to                             *)

\* requests.exceptions.Timeout
Timeout == [k |-> "Timeout", code |-> 0, body |-> None]

\* a response with an error status: raise_for_status() raises HTTPError
Http500 == [k |-> "status", code |-> 500, body |-> None]

\* an exception that is not a requests.exceptions.RequestException
Fault == [k |-> "fault", code |-> 0, body |-> None]

Ok(b) == [k |-> "status", code |-> 200, body |-> b]

NoOutcome == [k |-> "", code |-> 0, body |-> None]

\* str(e) of the exception an outcome raises
ExcText(out) ==
    CASE out.k = "Timeout" -> "Read timed out."
      [] out.k = "status"  -> ToString(out.code) \o " Server Error"
      [] OTHER             -> "unexpected fault"

\* except requests.exceptions.RequestException catches it
IsRequestException(out) == out.k = "Timeout" \/ (out.k = "status" /\ out.code >= 400)

HttpEvent(method, url, out) == [e |-> method, secs |-> 0, url |-> url, out |-> out]

SleepEvent(n) == [e |-> "sleep", secs |-> n, url |-> "", out |-> NoOutcome]

Calls(method) == SelectSeq(trace, LAMBDA ev : ev.e = method)

Sleeps == SelectSeq(trace, LAMBDA ev : ev.e = "sleep")

-----------------------------------------------------------------------------
(* validate_tool_input                                                     *)

\* the loop condition with <= for <
LoopCondInclusive(r, m) == r <= m

\* while retries < max_retries
LoopCond(r, m) == r < m

\* isinstance(input_data, str): json.loads(input_data), else input_data
Parsed(v) == IF v.t = "str" THEN JsonLoads(v.s) ELSE v

\* the comparison with >= in place of >
TooManyKeysOrAsMany(d, ek) == Len(ek) > 0 /\ Cardinality(DOMAIN d.kv) >= Len(ek)

\* expected_keys and len(input_data) > len(expected_keys)
TooManyKeys(d, ek) == Len(ek) > 0 /\ Cardinality(DOMAIN d.kv) > Len(ek)

\* a strip that leaves every key in place
StripKeysKeepsAll(d, ek) == d

\* {key: input_data[key] for key in expected_keys if key in input_data}
StripKeys(d, ek) == Dict([k \in Range(ek) \cap DOMAIN d.kv |-> d.kv[k]])

ErrorDict(msg) == Dict("error" :> Str(msg))

\* a pass that counts a format error as a retry instead of returning it
ValidatePassRetriesBadFormat(v, ek) ==
    LET p == Parsed(v) IN
    IF p = JSONDecodeError \/ p.t # "dict"
    THEN [act |-> "continue", line |-> 151, val |-> v]
    ELSE IF TooManyKeys(p, ek)
    THEN [act |-> "continue", line |-> 151, val |-> StripKeys(p, ek)]
    ELSE [act |-> "return", line |-> 153, val |-> p]

\* one pass of the loop body on the current input_data
ValidatePass(v, ek) ==
    LET p == Parsed(v) IN
    IF p = JSONDecodeError
    THEN [act |-> "return", line |-> 136, val |-> ErrorDict("Invalid JSON format.")]
    ELSE IF p.t # "dict"
    THEN [act |-> "return", line |-> 140,
          val |-> ErrorDict("Invalid input format. Expected JSON object.")]
    ELSE IF TooManyKeys(p, ek)
    THEN [act |-> "continue", line |-> 151, val |-> StripKeys(p, ek)]
    ELSE [act |-> "return", line |-> 153, val |-> p]

-----------------------------------------------------------------------------
(* NetBoxController.get_api and get_data_directly                          *)

UrlInterfaces == "/api/dcim/interfaces/"

UrlIpAddresses == "/api/ipam/ip-addresses/"

UrlNoResource == "/api/dcim/"

UrlNoApi == "/dcim/devices/"

UrlUpperCase == "/api/DCIM/devices/"

UrlNoSlash == "api/dcim/devices/"

UrlDigit == "/api/dcim2/devices/"

UrlEmpty == ""

\* the characters of the URL texts above (TLC cannot index a string)
Chars(s) ==
    CASE s = UrlInterfaces -> <<"/", "a", "p", "i", "/", "d", "c", "i", "m", "/", "i", "n", "t", "e", "r", "f", "a", "c", "e", "s", "/">>
      [] s = UrlIpAddresses -> <<"/", "a", "p", "i", "/", "i", "p", "a", "m", "/", "i", "p", "-", "a", "d", "d", "r", "e", "s", "s", "e", "s", "/">>
      [] s = UrlNoResource -> <<"/", "a", "p", "i", "/", "d", "c", "i", "m", "/">>
      [] s = UrlNoApi -> <<"/", "d", "c", "i", "m", "/", "d", "e", "v", "i", "c", "e", "s", "/">>
      [] s = UrlUpperCase -> <<"/", "a", "p", "i", "/", "D", "C", "I", "M", "/", "d", "e", "v", "i", "c", "e", "s", "/">>
      [] s = UrlNoSlash -> <<"a", "p", "i", "/", "d", "c", "i", "m", "/", "d", "e", "v", "i", "c", "e", "s", "/">>
      [] s = UrlDigit -> <<"/", "a", "p", "i", "/", "d", "c", "i", "m", "2", "/", "d", "e", "v", "i", "c", "e", "s", "/">>
      [] OTHER -> <<>>

Urls == {UrlInterfaces, UrlIpAddresses, UrlNoResource, UrlNoApi, UrlUpperCase,
         UrlNoSlash, UrlDigit, UrlEmpty}

\* api_url arguments: texts, and values that are not text
ApiUrlArgs == {Str(u) : u \in Urls} \cup {None, PyInt("7")}

Lower == {"a", "b", "c", "d", "e", "f", "g", "h", "i", "j", "k", "l", "m",
          "n", "o", "p", "q", "r", "s", "t", "u", "v", "w", "x", "y", "z"}

\* the pattern without its resource part: r"^/api/[a-z]+/"
ReMatchSectionOnly(c) ==
    /\ Len(c) >= 5
    /\ SubSeq(c, 1, 5) = <<"/", "a", "p", "i", "/">>
    /\ \E n \in 1..Len(c) :
          /\ 6 + n <= Len(c)
          /\ \A i \in 6..(5 + n) : c[i] \in Lower
          /\ c[6 + n] = "/"

\* re.match(r"^/api/[a-z]+/[a-z\-]+", api_url) on the characters c
ReMatch(c) ==
    /\ Len(c) >= 5
    /\ SubSeq(c, 1, 5) = <<"/", "a", "p", "i", "/">>
    /\ \E n \in 1..Len(c) :
          /\ 7 + n <= Len(c)
          /\ \A i \in 6..(5 + n) : c[i] \in Lower
          /\ c[6 + n] = "/"
          /\ c[7 + n] \in Lower \cup {"-"}

BodyInterfaces == Dict(("count" :> PyInt("1")) @@ ("results" :> PyList))

\* a 200 response whose JSON body has a non-empty "error" member
BodyWithError == Dict("error" :> Str("backend unavailable"))

GetOutcomes == {Timeout, Http500, Fault, Ok(BodyInterfaces), Ok(BodyWithError), Ok(PyList)}

\* NetBoxController.get_api: the value it returns, or the exception that leaves it
get_api(out) ==
    IF IsRequestException(out) THEN ErrorDict("Request failed: " \o ExcText(out))
    ELSE IF out.k = "fault" THEN Raised(ExcText(out))
    ELSE out.body

\* retries = 5
GetRetries == 5

\* the last attempt taken one too early
IsLastAttemptEarly(a, n) == a = n - 1

\* if attempt == retries
IsLastAttempt(a, n) == a = n

\* an iteration that goes on to the next attempt after a success
GetIterationGoesOn(a, response) ==
    IF IsLastAttempt(a, GetRetries)
    THEN [act |-> "return", sleep |-> 0,
          val |-> Dict(("status" :> Str("success"))
                       @@ ("message" :> Str("Data fetched successfully."))
                       @@ ("data" :> response))]
    ELSE [act |-> "next", sleep |-> 2, val |-> None]

\* the body of the for loop for one attempt, on what get_api came to
GetIteration(a, response) ==
    IF response.t = "raise"
    THEN IF IsLastAttempt(a, GetRetries)
         THEN [act |-> "return", sleep |-> 0,
               val |-> ErrorDict("GET request failed after " \o ToString(GetRetries)
                                 \o " attempts: " \o response.s)]
         ELSE [act |-> "next", sleep |-> 2, val |-> None]
    ELSE IF HasKey(response, "error") /\ Truthy(response.kv["error"])
    THEN IF IsLastAttempt(a, GetRetries)
         THEN [act |-> "return", sleep |-> 0,
               val |-> ErrorDict("API request failed after " \o ToString(GetRetries)
                                 \o " attempts: " \o response.kv["error"].s)]
         ELSE [act |-> "next", sleep |-> 2, val |-> None]
    ELSE [act |-> "return", sleep |-> 0,
          val |-> Dict(("status" :> Str("success"))
                       @@ ("message" :> Str("Data fetched successfully."))
                       @@ ("data" :> response))]

\* lines 161-171: the checks between validation and the retry loop;
\* None when they all pass
GetChecks(d) ==
    IF HasKey(d, "error") THEN d
    ELSE IF ~Truthy(d.kv["api_url"]) \/ d.kv["api_url"].t # "str"
    THEN ErrorDict("Invalid or missing api_url.")
    ELSE IF ~ReMatch(Chars(d.kv["api_url"].s))
    THEN ErrorDict("Invalid API URL format: " \o d.kv["api_url"].s)
    ELSE None

-----------------------------------------------------------------------------
(* SelectorAPI.ask and SelectorRawDataAPI.ask                              *)

AskOps == {"SelectorAPI.ask", "SelectorRawDataAPI.ask"}

\* the member of the request payload
PayloadKey(o) == IF o = "SelectorAPI.ask" THEN "content" ELSE "command"

Questions == {"show device health", "list interfaces"}

BodyContent == Dict("content" :> Str("All devices are healthy."))

BodyData == Dict("data" :> PyList)

\* a body by which the analytics API reports an error of its own
BodyError ==
    Dict(("error" :> Str("Query could not be interpreted.")) @@ ("content" :> Str(""))
         @@ ("data" :> None))

PostOutcomes == {Timeout, Http500, Fault, Ok(BodyContent), Ok(BodyData), Ok(BodyError)}

\* one attempt more than the code makes
AskRetriesFour == 3 + 1

\* retries = 3
AskRetries == 3

\* the try statement of one attempt: the response returned, the exception
\* handled and logged, or the exception that leaves ask
AskTry(out) ==
    IF IsRequestException(out) THEN [act |-> "except", val |-> None]
    ELSE IF out.k = "fault" THEN [act |-> "raise", val |-> Raised(ExcText(out))]
    ELSE [act |-> "return", val |-> out.body]

\* the value returned after the loop
AskExhausted == ErrorDict("Failed to fetch response after " \o ToString(AskRetries) \o " attempts.")

-----------------------------------------------------------------------------
(* NetBoxController.delete_api and delete_data_handler                     *)

\* api_url.rstrip('/')
RStripSlash(s) == IF s = ProvidersUrl THEN "/api/circuits/providers" ELSE s

DeleteNoName == Dict(("api_url" :> Str(ProvidersUrl)) @@ ("payload" :> Dict(EmptyMap)))

DeleteNoPayload == Dict("api_url" :> Str(ProvidersUrl))

DeleteNoUrl == Dict("payload" :> BellCanada)

\* 'payload' is text, not a map
DeletePayloadText ==
    Dict(("api_url" :> Str(ProvidersUrl)) @@ ("payload" :> Str("Bell Canada")))

\* 'api_url' is a number, not text
DeleteUrlNumber == Dict(("api_url" :> PyInt("7")) @@ ("payload" :> BellCanada))

\* a payload that has an 'error' member of its own
DeleteErrorKey == Dict(("api_url" :> Str(ProvidersUrl)) @@ ("error" :> Str("x")))

DeletePayloads ==
    {DeleteBell, PayloadThree, Str(TextDeleteBell), DeleteNoName, DeleteNoPayload,
     DeleteNoUrl, DeletePayloadText, DeleteUrlNumber, DeleteErrorKey, Str(TextGarbage)}

Provider(id) == Dict(("id" :> PyInt(id)) @@ ("name" :> Str("Bell Canada")))

LookupNone == Dict(("count" :> PyInt("0")) @@ ("results" :> List(<<>>)))

LookupOne == Dict(("count" :> PyInt("1")) @@ ("results" :> List(<<Provider("7")>>)))

LookupTwo ==
    Dict(("count" :> PyInt("2")) @@ ("results" :> List(<<Provider("7"), Provider("9")>>)))

\* a reply that counts one match and lists none
LookupNoResults == Dict(("count" :> PyInt("1")) @@ ("results" :> List(<<>>)))

LookupOutcomes ==
    {Timeout, Http500, Fault, Ok(LookupNone), Ok(LookupOne), Ok(LookupTwo),
     Ok(LookupNoResults), Ok(PyList)}

NoContent == [k |-> "status", code |-> 204, body |-> None]

Http404 == [k |-> "status", code |-> 404, body |-> None]

DeleteOutcomes == {Timeout, Fault, NoContent, Ok(None), Http404, Http500}

\* NetBoxController.delete_api: the value it returns, or the exception that leaves it
delete_api(out) ==
    IF out.k = "Timeout" THEN ErrorDict("Request failed: " \o ExcText(out))
    ELSE IF out.k = "fault" THEN Raised(ExcText(out))
    ELSE IF out.code = 204
    THEN Dict(("status" :> Str("success")) @@ ("message" :> Str("Deletion successful.")))
    ELSE ErrorDict("Failed to delete. Status code: " \o ToString(out.code))

\* except Exception as e (line 280)
DeleteCaught(e) == ErrorDict("Error deleting data: " \o e)

\* lines 238-247: what is returned (or raised) before the lookup; None when
\* the handler goes on
DeleteChecks(d) ==
    IF HasKey(d, "error") THEN d
    ELSE LET api_url == Get(d, "api_url", None)
             payload == Get(d, "payload", Dict(EmptyMap))
         IN  IF payload.t # "dict" THEN Raised("AttributeError")
             ELSE IF ~Truthy(api_url) \/ ~Truthy(Get(payload, "name", None))
             THEN ErrorDict("Both 'api_url' and 'payload' with 'name' are required.")
             ELSE None

\* name = payload.get("name")
DeleteName(d) == d.kv["payload"].kv["name"].s

\* a count test that never finds zero
CountIsNegative(r) == FALSE

\* lookup_response.get('count', 0) == 0
CountIsZero(r) == Get(r, "count", PyInt("0")) = PyInt("0")

\* a lookup without a match reported as a deletion with nothing to do
LookupVerdictNothingToDo(d, r) ==
    IF r.t = "raise" THEN DeleteCaught(r.s)
    ELSE IF r.t # "dict" THEN DeleteCaught("AttributeError")
    ELSE IF CountIsZero(r)
    THEN Dict(("status" :> Str("success")) @@ ("message" :> Str("Nothing to delete.")))
    ELSE None

\* lines 257-262: what the lookup reply makes the handler return; None when
\* the handler goes on to the DELETE
LookupVerdict(d, r) ==
    IF r.t = "raise" THEN DeleteCaught(r.s)
    ELSE IF r.t # "dict" THEN DeleteCaught("AttributeError")
    ELSE IF CountIsZero(r)
    THEN ErrorDict("No resource found at '" \o d.kv["api_url"].s \o "' with name '"
                   \o DeleteName(d) \o "'.")
    ELSE None

\* the identifier of the last candidate
EntityIdLast(r) ==
    IF ~HasKey(r, "results") THEN Raised("KeyError")
    ELSE IF r.kv["results"].t # "list" \/ Items(r.kv["results"]) = <<>>
    THEN Raised("IndexError")
    ELSE Items(r.kv["results"])[Len(Items(r.kv["results"]))].kv["id"]

\* lookup_response['results'][0]['id'], or the exception it raises
EntityId(r) ==
    IF ~HasKey(r, "results") THEN Raised("KeyError")
    ELSE IF r.kv["results"].t # "list" \/ Items(r.kv["results"]) = <<>>
    THEN Raised("IndexError")
    ELSE IF ~HasKey(Items(r.kv["results"])[1], "id") THEN Raised("KeyError")
    ELSE Items(r.kv["results"])[1].kv["id"]

\* f"{api_url.rstrip('/')}/{entity_id}/"
DeleteUrl(api_url, id) == RStripSlash(api_url) \o "/" \o id.s \o "/"

\* an error of the DELETE wrapped a second time
DeleteVerdictWrapped(d, r) ==
    IF r.t = "raise" THEN DeleteCaught(r.s)
    ELSE IF Get(r, "status", None) = Str("success")
    THEN Dict(("status" :> Str("success"))
              @@ ("message" :> Str("Successfully deleted '" \o DeleteName(d) \o "' at "
                                   \o d.kv["api_url"].s \o ".")))
    ELSE DeleteCaught(Get(r, "error", Str("Unknown error during deletion.")).s)

\* lines 272-282: the handler's result for what delete_api came to
DeleteVerdict(d, r) ==
    IF r.t = "raise" THEN DeleteCaught(r.s)
    ELSE IF Get(r, "status", None) = Str("success")
    THEN Dict(("status" :> Str("success"))
              @@ ("message" :> Str("Successfully deleted '" \o DeleteName(d) \o "' at "
                                   \o d.kv["api_url"].s \o ".")))
    ELSE ErrorDict(Get(r, "error", Str("Unknown error during deletion.")).s)

-----------------------------------------------------------------------------
(* fetch_cves_from_opencve: string methods                                 *)

\* s.replace("'", '"')
RECURSIVE ReplaceQuotes(_)
ReplaceQuotes(s) ==
    IF s = "" THEN ""
    ELSE (IF SubSeq(s, 1, 1) = "'" THEN "\"" ELSE SubSeq(s, 1, 1))
            \o ReplaceQuotes(SubSeq(s, 2, Len(s)))

Whitespace == {" ", "\t", "\n"}

RECURSIVE LStrip(_)
LStrip(s) ==
    IF s # "" /\ SubSeq(s, 1, 1) \in Whitespace THEN LStrip(SubSeq(s, 2, Len(s))) ELSE s

RECURSIVE RStrip(_)
RStrip(s) ==
    IF s # "" /\ SubSeq(s, Len(s), Len(s)) \in Whitespace
    THEN RStrip(SubSeq(s, 1, Len(s) - 1)) ELSE s

\* s.strip()
Strip(s) == RStrip(LStrip(s))

LowerOf(c) ==
    CASE c = "A" -> "a" [] c = "B" -> "b" [] c = "C" -> "c" [] c = "D" -> "d"
      [] c = "E" -> "e" [] c = "F" -> "f" [] c = "G" -> "g" [] c = "H" -> "h"
      [] c = "I" -> "i" [] c = "J" -> "j" [] c = "K" -> "k" [] c = "L" -> "l"
      [] c = "M" -> "m" [] c = "N" -> "n" [] c = "O" -> "o" [] c = "P" -> "p"
      [] c = "Q" -> "q" [] c = "R" -> "r" [] c = "S" -> "s" [] c = "T" -> "t"
      [] c = "U" -> "u" [] c = "V" -> "v" [] c = "W" -> "w" [] c = "X" -> "x"
      [] c = "Y" -> "y" [] c = "Z" -> "z" [] OTHER -> c

\* s.lower()
RECURSIVE StrLower(_)
StrLower(s) ==
    IF s = "" THEN "" ELSE LowerOf(SubSeq(s, 1, 1)) \o StrLower(SubSeq(s, 2, Len(s)))

RECURSIVE SplitFrom(_, _)
SplitFrom(s, cur) ==
    IF s = "" THEN <<cur>>
    ELSE IF SubSeq(s, 1, 1) = "." THEN <<cur>> \o SplitFrom(SubSeq(s, 2, Len(s)), "")
    ELSE SplitFrom(SubSeq(s, 2, Len(s)), cur \o SubSeq(s, 1, 1))

\* s.split(".")
SplitDot(s) == SplitFrom(s, "")

\* ".".join(parts)
RECURSIVE JoinDot(_)
JoinDot(parts) ==
    IF parts = <<>> THEN ""
    ELSE IF Len(parts) = 1 THEN parts[1]
    ELSE parts[1] \o "." \o JoinDot(Tail(parts))

\* seq[:n]
Take(seq, n) == SubSeq(seq, 1, IF Len(seq) < n THEN Len(seq) ELSE n)

-----------------------------------------------------------------------------
(* fetch_cves_from_opencve                                                 *)

CveVendors ==
    {"Juniper Networks", " JUNIPER NETWORKS ", "juniper", "Cisco Systems", "cisco systems",
     "Arista Networks", "ARISTA", "Palo Alto", ""}

CveVersions == {"21.4R5", "21.4.1", "17.3", "4.28.3.1", " 9.3.2 ", "", "   "}

CveNoVersion == Dict("vendor" :> Str("Juniper Networks"))

CveVendorNumber == Dict(("vendor" :> PyInt("7")) @@ ("version" :> Str("21.4.1")))

CveInputs ==
    {CveQuery(vendor, version) : vendor \in CveVendors, version \in CveVersions}
    \cup {Str(TextCveQuoted), Str(TextGarbage), Str(TextList), PyInt("42"),
          CveNoVersion, CveVendorNumber}

\* lines 67-73: a string argument is parsed after its quotes are replaced
CveParse(v) ==
    IF v.t # "str" THEN v
    ELSE LET parsed == JsonLoads(ReplaceQuotes(v.s))
         IN  IF parsed = JSONDecodeError
             THEN ErrorDict("Invalid input format. Expected a valid JSON dictionary.")
             ELSE parsed

\* lines 84-92: vendor_mapping.get(vendor, vendor)
VendorMapping(vendor) ==
    CASE vendor = "juniper networks" -> "juniper"
      [] vendor = "juniper"          -> "juniper"
      [] vendor = "cisco systems"    -> "cisco"
      [] vendor = "cisco"            -> "cisco"
      [] vendor = "arista networks"  -> "arista"
      [] vendor = "arista"           -> "arista"
      [] OTHER                       -> vendor

\* the vendor without .lower()
NormalizeVendorAsTyped(raw) == VendorMapping(Strip(raw))

\* lines 80 and 92
NormalizeVendor(raw) == VendorMapping(StrLower(Strip(raw)))

\* line 80 and 92 on the argument
CveVendor(d) == NormalizeVendor(Get(d, "vendor", Str("")).s)

\* the version as typed
CveVersionUntrimmed(d) == Get(d, "version", Str("")).s

\* line 81
CveVersion(d) == Strip(Get(d, "version", Str("")).s)

\* lines 67-96: None when the query goes ahead, else the value returned or
\* the exception raised (.strip() of a value that is not a string)
CveChecks(v) ==
    LET d == CveParse(v)
    IN  IF v.t = "str" /\ JsonLoads(ReplaceQuotes(v.s)) = JSONDecodeError THEN d
        ELSE IF d.t # "dict" THEN ErrorDict("Invalid input format. Expected a dictionary.")
        ELSE IF Get(d, "vendor", Str("")).t # "str" \/ Get(d, "version", Str("")).t # "str"
             THEN Raised("AttributeError")
        ELSE IF CveVendor(d) = "" \/ CveVersion(d) = ""
             THEN ErrorDict("Missing 'vendor' or 'version' field.")
        ELSE None

\* lines 101 and 124
CveUrl(vendor, version) ==
    "https://app.opencve.io/api/cve?vendor=" \o vendor \o "&version=" \o version

\* the first component only
FallbackVersionMajor(version) == JoinDot(Take(SplitDot(version), 1))

\* line 121
FallbackVersion(version) == JoinDot(Take(SplitDot(version), 2))

\* broadening whatever the fallback version is
ShouldBroadenAlways(version) == TRUE

\* line 122
ShouldBroaden(version) == FallbackVersion(version) # version

\* line 120
CveCountIsZero(r) == Get(r, "count", PyInt("0")) = PyInt("0")

\* the most records a backend reply carries
MaxRecords == 11

\* the longest description a backend record carries
MaxDescLen == 201

\* cve_list[:10]
RecordCap == 10

\* cve["description"][:200]
DescriptionCap == 200

RECURSIVE Pad(_)
Pad(n) ==
    IF n = 0 THEN ""
    ELSE IF n % 2 = 0 THEN LET half == Pad(n \div 2) IN half \o half
    ELSE "x" \o Pad(n - 1)

ShortDescription == "Buffer overflow in the routing daemon."

\* descriptions below, at and above the cap
Description(i) ==
    CASE i % 3 = 1 -> Pad(MaxDescLen)
      [] i % 3 = 2 -> ShortDescription
      [] OTHER     -> Pad(DescriptionCap)

CveRecord(i) ==
    Dict(("cve_id" :> Str("CVE-2024-" \o ToString(i))) @@ ("description" :> Str(Description(i))))

\* a page of the OpenCVE API with n records
CvePage(n) ==
    Dict(("count" :> PyInt(ToString(n))) @@ ("results" :> List([i \in 1..n |-> CveRecord(i)])))

CveNone == CvePage(0)

CveTwo == CvePage(2)

CveMany == CvePage(MaxRecords)

CveOutcomes == {Timeout, Http500, Fault, Ok(CveNone), Ok(CveTwo), Ok(CveMany)}

\* lines 113-115 and 140-142: the body, the exception handled, or the
\* exception that leaves the function
FetchTry(out) ==
    IF IsRequestException(out)
    THEN [act |-> "except", val |-> ErrorDict("Failed to fetch CVEs from OpenCVE.")]
    ELSE IF out.k = "fault" THEN [act |-> "raise", val |-> Raised(ExcText(out))]
    ELSE [act |-> "return", val |-> out.body]

\* the description without the ellipsis
FormatDescriptionBare(text) == Take(text, DescriptionCap)

\* line 135: cve["description"][:200] + "..."
FormatDescription(text) == Take(text, DescriptionCap) \o "..."

\* line 135, one record
FormatCve(cve) ==
    Dict(("cve_id" :> cve.kv["cve_id"])
         @@ ("description" :> Str(FormatDescription(cve.kv["description"].s))))

\* lines 131-138
CveFormat(vendor, version, json_response) ==
    LET cve_list == Items(Get(json_response, "results", List(<<>>)))
    IN  IF cve_list = <<>>
        THEN Dict("message" :> Str("No CVEs found for " \o vendor \o " " \o version \o "."))
        ELSE Dict(("cve_count" :> json_response.kv["count"])
                  @@ ("cves" :> List([i \in 1..Len(Take(cve_list, RecordCap)) |->
                                         FormatCve(cve_list[i])])))

-----------------------------------------------------------------------------
(* ask_selector and ask_selector_raw                                       *)

SelectorTools == {"ask_selector", "ask_selector_raw"}

\* the field of the argument that carries the question
InputKey(o) == IF o = "ask_selector" THEN "input" ELSE "command"

SelectorInputs(o) ==
    {Str(q) : q \in Questions}
    \cup {Dict(InputKey(o) :> Str(q)) : q \in Questions}
    \cup {Dict("query" :> Str("show device health")), PyList}

\* lines 87-89: an argument that is not a dict is wrapped
Wrap(o, v) == IF v.t = "dict" THEN v ELSE Dict(InputKey(o) :> v)

\* lines 91-93
MissingField(o) == ErrorDict("Missing '" \o InputKey(o) \o "' field in JSON object.")

\* both tools reading 'content'
ExtractKeyContent(o) == "content"

\* line 106: the field the tool extracts
ExtractKey(o) == IF o = "ask_selector" THEN "content" ELSE "data"

\* extraction without the error check
SelectorVerdictNoCheck(o, response) ==
    Get(response, ExtractKey(o), Str("No valid response received."))

\* lines 102-110
SelectorVerdict(o, response) ==
    IF response.t = "dict" /\ HasKey(response, "error") THEN response
    ELSE IF response.t # "dict" THEN Raised("AttributeError")
    ELSE Get(response, ExtractKey(o), Str("No valid response received."))

-----------------------------------------------------------------------------
(* main_agent.py: selector_agent_func and the Send handler                 *)

\* the functions under which ask_selector / ask_selector_raw run
SelectorCallers == SelectorTools \cup {"selector_agent_func"}

\* the tool function that runs under o (line 55: ask_selector_tool.func)
SelectorTool(o) == IF o = "selector_agent_func" THEN "ask_selector" ELSE o

\* line 56: {"output": response}; an exception passes through
SelectorExit(o, v) ==
    IF o = "selector_agent_func" /\ v.t # "raise" THEN Dict("output" :> v) ELSE v

\* what parent_agent.invoke may hand back to the Send handler
RouterResponses ==
    {Str("All devices are healthy."),
     Dict(("input" :> Str("show device health")) @@ ("output" :> Str("All devices are healthy."))),
     ErrorDict("Agent stopped due to iteration limit."),
     PyList, None}

\* line 134
ResponseText(response) ==
    IF response.t = "str" THEN response
    ELSE IF response.t # "dict" THEN Raised("AttributeError")
    ELSE Get(response, "output", Str("No valid response received."))

-----------------------------------------------------------------------------
(* NetBoxController.post_api and create_data_handler                       *)

CreatePayloads == DeletePayloads

\* the resource as NetBox returns it once created
BodyCreated == Dict(("id" :> PyInt("7")) @@ ("name" :> Str("Bell Canada")))

Created(b) == [k |-> "status", code |-> 201, body |-> b]

Http400 == [k |-> "status", code |-> 400, body |-> None]

CreateOutcomes == {Timeout, Fault, Created(BodyCreated), Ok(BodyCreated), Http400, Http500}

\* NetBoxController.post_api: the value it returns, or the exception that leaves it
post_api(out) ==
    IF IsRequestException(out) THEN ErrorDict("Request failed: " \o ExcText(out))
    ELSE IF out.k = "fault" THEN Raised(ExcText(out))
    ELSE out.body

\* the check of api_url alone
CreateChecksUrlOnly(d) ==
    IF HasKey(d, "error") THEN d
    ELSE IF ~Truthy(Get(d, "api_url", None))
    THEN ErrorDict("Both 'api_url' and a valid 'payload' dictionary are required.")
    ELSE None

\* lines 210-217: what is returned before the POST; None when the handler goes on
CreateChecks(d) ==
    IF HasKey(d, "error") THEN d
    ELSE IF ~Truthy(Get(d, "api_url", None)) \/ Get(d, "payload", None).t # "dict"
    THEN ErrorDict("Both 'api_url' and a valid 'payload' dictionary are required.")
    ELSE None

\* lines 224-233: what the handler returns for what post_api returned or raised
CreateVerdict(d, response) ==
    IF response.t = "raise" THEN ErrorDict("POST request failed: " \o response.s)
    ELSE Dict(("status" :> Str("success"))
              @@ ("message" :> Str("Successfully created resource at "
                                   \o d.kv["api_url"].s \o "."))
              @@ ("response" :> response))

-----------------------------------------------------------------------------
(* email_agent_func and send_email                                         *)

EmailNoMessage ==
    Dict(("recipient" :> Str("noc@example.com")) @@ ("subject" :> Str("Device health")))

EmailWithCopy ==
    Dict(("recipient" :> Str("noc@example.com")) @@ ("subject" :> Str(""))
         @@ ("message" :> Str("All devices are healthy.")) @@ ("cc" :> Str("ops@example.com")))

EmailInputs ==
    {EmailFull, EmailWithCopy, EmailNoMessage, PayloadEmpty, PyList, None,
     Str(TextEmail), Str(TextGarbage), Str(TextList), Str(TextExact)}

\* the SMTP server took the message
Sent == [k |-> "status", code |-> 250, body |-> None]

\* smtplib raised (connection refused, recipient refused, ...)
Refused == [k |-> "fault", code |-> 0, body |-> None]

SmtpOutcomes == {Sent, Refused}

EmailError(msg) == Dict(("status" :> Str("error")) @@ ("error" :> Str(msg)))

\* the check without 'message'
EmailKeysNoMessage == <<"recipient", "subject">>

\* line 67
EmailKeys == <<"recipient", "subject", "message">>

\* lines 64-68 and 70-71: what is returned instead of delegating; None when
\* send_email_tool.func is called
EmailChecks(v) ==
    IF v.t = "str" /\ JsonLoads(v.s) = JSONDecodeError
    THEN EmailError("Expecting value: line 1 column 1 (char 0)")
    ELSE LET d == Parsed(v)
         IN  IF d.t # "dict" \/ ~(\A k \in Range(EmailKeys) : k \in DOMAIN d.kv)
             THEN EmailError("Invalid email data format")
             ELSE None

\* email_agent.py lines 11-27: send_email
send_email(recipient, out) ==
    IF out.k = "fault" THEN EmailError(ExcText(out))
    ELSE Dict(("status" :> Str("success")) @@ ("message" :> Str("Email sent to " \o recipient)))

-----------------------------------------------------------------------------
TypeOK ==
    /\ op \in {"idle", "validate_tool_input", "get_data_directly", "delete_data_handler",
              "create_data_handler", "email_agent_func",
              "fetch_cves_from_opencve"}
             \cup AskOps \cup SelectorCallers \cup {"send"}
    /\ pc \in {"idle", "validate", "validated", "get_loop", "ask_loop", "found", "called", "wrapped", "asked",
              "invoked",
              "broaden", "done"}
    /\ retries \in 0..(DefaultMaxRetries + 1)
    /\ attempt \in 0..GetRetries
    /\ (pc = "done") = (result # NotReturned)

Init ==
    /\ op = "idle"
    /\ pc = "idle"
    /\ arg = None
    /\ input_data = None
    /\ expected_keys = <<>>
    /\ max_retries = DefaultMaxRetries
    /\ retries = 0
    /\ vret = 0
    /\ attempt = 0
    /\ trace = <<>>
    /\ reply = None
    /\ result = NotReturned

\* entry of validate_tool_input (line 127)
EnterValidate(v, ek, m) ==
    /\ input_data' = v
    /\ expected_keys' = ek
    /\ max_retries' = m
    /\ retries' = 0
    /\ vret' = 0
    /\ pc' = "validate"

\* a tool call validate_tool_input(payload, expected_keys, max_retries)
CallValidate ==
    /\ op = "idle"
    /\ \E v \in Payloads, ek \in ExpectedKeySets, m \in MaxRetriesValues :
          /\ EnterValidate(v, ek, m)
          /\ arg' = v
    /\ op' = "validate_tool_input"
    /\ UNCHANGED <<attempt, trace, result, reply>>

\* where control goes when validate_tool_input returns
AfterValidate == IF op = "validate_tool_input" THEN "done" ELSE "validated"

\* lines 129-153: a pass that strips the unexpected keys and loops again
ValidateStrip ==
    /\ pc = "validate"
    /\ LoopCond(retries, max_retries)
    /\ LET r == ValidatePass(input_data, expected_keys) IN
          /\ r.act = "continue"
          /\ input_data' = r.val
          /\ retries' = retries + 1
          /\ trace' = Append(trace, SleepEvent(1))
    /\ UNCHANGED <<op, pc, arg, expected_keys, max_retries, vret, attempt, result, reply>>

\* lines 129-153: a pass that returns (the payload, or a format error)
ValidateReturn ==
    /\ pc = "validate"
    /\ LoopCond(retries, max_retries)
    /\ LET r == ValidatePass(input_data, expected_keys) IN
          /\ r.act = "return"
          /\ input_data' = r.val
          /\ vret' = r.line
          /\ result' = IF op = "validate_tool_input" THEN r.val ELSE result
    /\ pc' = AfterValidate
    /\ UNCHANGED <<op, arg, expected_keys, max_retries, retries, attempt, trace, reply>>

\* lines 155-156: the loop condition failed
ValidateExceeded ==
    /\ pc = "validate"
    /\ ~LoopCond(retries, max_retries)
    /\ LET e == ErrorDict("Too many arguments provided, and retries exceeded.") IN
          /\ input_data' = e
          /\ result' = IF op = "validate_tool_input" THEN e ELSE result
    /\ vret' = 156
    /\ pc' = AfterValidate
    /\ UNCHANGED <<op, arg, expected_keys, max_retries, retries, attempt, trace, reply>>

-----------------------------------------------------------------------------
(* get_data_directly                                                       *)

\* line 159: get_data_directly(api_url) calls the validator
CallGet ==
    /\ op = "idle"
    /\ \E u \in ApiUrlArgs :
          /\ EnterValidate(Dict("api_url" :> u), <<"api_url">>, DefaultMaxRetries)
          /\ arg' = u
    /\ op' = "get_data_directly"
    /\ UNCHANGED <<attempt, trace, result, reply>>

\* lines 161-171: one of the checks fails, an error is returned
GetRejected ==
    /\ op = "get_data_directly"
    /\ pc = "validated"
    /\ GetChecks(input_data) # None
    /\ result' = GetChecks(input_data)
    /\ pc' = "done"
    /\ UNCHANGED <<op, arg, input_data, expected_keys, max_retries, retries, vret,
                   attempt, trace, reply>>

\* lines 161-183: the checks pass, the loop starts with attempt 1
GetAccepted ==
    /\ op = "get_data_directly"
    /\ pc = "validated"
    /\ GetChecks(input_data) = None
    /\ attempt' = 1
    /\ pc' = "get_loop"
    /\ UNCHANGED <<op, arg, input_data, expected_keys, max_retries, retries, vret,
                   trace, result, reply>>

\* lines 183-198: one attempt of the loop
GetAttempt ==
    /\ op = "get_data_directly"
    /\ pc = "get_loop"
    /\ \E out \in GetOutcomes :
          LET call == HttpEvent("GET", input_data.kv["api_url"].s, out)
              r == GetIteration(attempt, get_api(out))
          IN  IF r.act = "return"
              THEN /\ trace' = Append(trace, call)
                   /\ result' = r.val
                   /\ pc' = "done"
                   /\ UNCHANGED attempt
              ELSE /\ trace' = trace \o <<call, SleepEvent(r.sleep)>>
                   /\ IF attempt + 1 <= GetRetries
                      THEN /\ attempt' = attempt + 1
                           /\ UNCHANGED <<pc, result>>
                      ELSE /\ result' = ErrorDict("Unexpected failure in API request.")
                           /\ pc' = "done"
                           /\ UNCHANGED attempt
    /\ UNCHANGED <<op, arg, input_data, expected_keys, max_retries, retries, vret, reply>>

-----------------------------------------------------------------------------
(* SelectorAPI.ask / SelectorRawDataAPI.ask                                *)

\* lines 43-53: ask({"content": q}) / ask({"command": q})
CallAsk ==
    /\ op = "idle"
    /\ \E o \in AskOps, q \in Questions :
          /\ op' = o
          /\ arg' = Dict(PayloadKey(o) :> Str(q))
    /\ attempt' = 0
    /\ pc' = "ask_loop"
    /\ UNCHANGED <<input_data, expected_keys, max_retries, retries, vret, trace, result, reply>>

\* where the value ask returns goes: to the tool that called it, or out
AskReturns(val) ==
    IF op \in AskOps
    THEN /\ result' = val
         /\ pc' = "done"
         /\ UNCHANGED reply
    ELSE /\ reply' = val
         /\ pc' = "asked"
         /\ UNCHANGED result

\* one attempt of `for attempt in range(retries)`, and the return after the
\* loop when it was the last one
AskAttempt ==
    /\ op \in AskOps \cup SelectorCallers
    /\ pc = "ask_loop"
    /\ \E out \in PostOutcomes :
          LET call == HttpEvent("POST", "SELECTOR_API_URL", out)
              r == AskTry(out)
          IN  IF r.act = "raise"
              THEN /\ trace' = Append(trace, call)
                   /\ result' = r.val
                   /\ pc' = "done"
                   /\ UNCHANGED <<attempt, reply>>
              ELSE IF r.act = "return"
              THEN /\ trace' = Append(trace, call)
                   /\ AskReturns(r.val)
                   /\ UNCHANGED attempt
              ELSE /\ trace' = trace \o <<call, SleepEvent(2)>>
                   /\ IF attempt + 1 < AskRetries
                      THEN /\ attempt' = attempt + 1
                           /\ UNCHANGED <<pc, result, reply>>
                      ELSE /\ AskReturns(AskExhausted)
                           /\ UNCHANGED attempt
    /\ UNCHANGED <<op, arg, input_data, expected_keys, max_retries, retries, vret>>

-----------------------------------------------------------------------------
(* delete_data_handler                                                     *)

\* line 236: delete_data_handler(input_data) calls the validator
CallDelete ==
    /\ op = "idle"
    /\ \E v \in DeletePayloads :
          /\ EnterValidate(v, <<"api_url", "payload">>, DefaultMaxRetries)
          /\ arg' = v
    /\ op' = "delete_data_handler"
    /\ UNCHANGED <<attempt, trace, reply, result>>

\* lines 238-247: returned (or raised) before any lookup
DeleteRejected ==
    /\ op = "delete_data_handler"
    /\ pc = "validated"
    /\ DeleteChecks(input_data) # None
    /\ result' = DeleteChecks(input_data)
    /\ pc' = "done"
    /\ UNCHANGED <<op, arg, input_data, expected_keys, max_retries, retries, vret,
                   attempt, trace, reply>>

\* lines 249-262: the lookup GET and the test of its count
DeleteLookup ==
    /\ op = "delete_data_handler"
    /\ pc = "validated"
    /\ DeleteChecks(input_data) = None
    /\ IF input_data.kv["api_url"].t # "str"
       THEN \* api_url.lstrip raises in get_api before the request is made
            /\ result' = DeleteCaught("AttributeError")
            /\ pc' = "done"
            /\ UNCHANGED <<trace, reply>>
       ELSE \E out \in LookupOutcomes :
            LET r == get_api(out)
                v == LookupVerdict(input_data, r)
            IN  /\ trace' = Append(trace, HttpEvent("GET", input_data.kv["api_url"].s, out))
                /\ reply' = r
                /\ IF v # None
                   THEN result' = v /\ pc' = "done"
                   ELSE pc' = "found" /\ UNCHANGED result
    /\ UNCHANGED <<op, arg, input_data, expected_keys, max_retries, retries, vret, attempt>>

\* lines 264-282: the identifier of the first candidate, a fault in finding it
DeleteNoCandidate ==
    /\ op = "delete_data_handler"
    /\ pc = "found"
    /\ EntityId(reply).t = "raise"
    /\ result' = DeleteCaught(EntityId(reply).s)
    /\ pc' = "done"
    /\ UNCHANGED <<op, arg, input_data, expected_keys, max_retries, retries, vret,
                   attempt, trace, reply>>

\* lines 264-282: the DELETE of the first candidate and the handler's return
DeleteDelete ==
    /\ op = "delete_data_handler"
    /\ pc = "found"
    /\ EntityId(reply).t # "raise"
    /\ \E out \in DeleteOutcomes :
          LET r == delete_api(out) IN
          /\ trace' = Append(trace,
                 HttpEvent("DELETE", DeleteUrl(input_data.kv["api_url"].s, EntityId(reply)), out))
          /\ reply' = r
          /\ result' = DeleteVerdict(input_data, r)
    /\ pc' = "done"
    /\ UNCHANGED <<op, arg, input_data, expected_keys, max_retries, retries, vret, attempt>>

-----------------------------------------------------------------------------
(* fetch_cves_from_opencve; OPENCVE_USER and OPENCVE_PASSWORD are set      *)

\* line 60
CallFetch ==
    /\ op = "idle"
    /\ \E v \in CveInputs :
          /\ arg' = v
          /\ input_data' = v
    /\ op' = "fetch_cves_from_opencve"
    /\ pc' = "called"
    /\ UNCHANGED <<expected_keys, max_retries, retries, vret, attempt, trace, reply, result>>

\* lines 67-96: the argument is refused
FetchRejected ==
    /\ op = "fetch_cves_from_opencve"
    /\ pc = "called"
    /\ CveChecks(arg) # None
    /\ result' = CveChecks(arg)
    /\ pc' = "done"
    /\ UNCHANGED <<op, arg, input_data, expected_keys, max_retries, retries, vret, attempt,
                   trace, reply>>

\* lines 67-122 and 130-142: the exact query
FetchExact ==
    /\ op = "fetch_cves_from_opencve"
    /\ pc = "called"
    /\ CveChecks(arg) = None
    /\ input_data' = CveParse(arg)
    /\ \E out \in CveOutcomes :
          LET vendor == CveVendor(CveParse(arg))
              version == CveVersion(CveParse(arg))
              r == FetchTry(out)
          IN  /\ trace' = Append(trace, HttpEvent("GET", CveUrl(vendor, version), out))
              /\ IF r.act # "return"
                 THEN /\ result' = r.val
                      /\ pc' = "done"
                      /\ UNCHANGED reply
                 ELSE /\ reply' = r.val
                      /\ IF CveCountIsZero(r.val) /\ ShouldBroaden(version)
                         THEN /\ pc' = "broaden"
                              /\ UNCHANGED result
                         ELSE /\ result' = CveFormat(vendor, version, r.val)
                              /\ pc' = "done"
    /\ UNCHANGED <<op, arg, expected_keys, max_retries, retries, vret, attempt>>

\* lines 123-142: the query with the fallback version
FetchBroadened ==
    /\ op = "fetch_cves_from_opencve"
    /\ pc = "broaden"
    /\ \E out \in CveOutcomes :
          LET vendor == CveVendor(input_data)
              version == CveVersion(input_data)
              r == FetchTry(out)
          IN  /\ trace' = Append(trace, HttpEvent("GET", CveUrl(vendor, FallbackVersion(version)), out))
              /\ IF r.act # "return"
                 THEN /\ result' = r.val
                      /\ UNCHANGED reply
                 ELSE /\ reply' = r.val
                      /\ result' = CveFormat(vendor, version, r.val)
    /\ pc' = "done"
    /\ UNCHANGED <<op, arg, input_data, expected_keys, max_retries, retries, vret, attempt>>

-----------------------------------------------------------------------------
(* ask_selector and ask_selector_raw                                       *)

\* lines 79-89
CallSelector ==
    /\ op = "idle"
    /\ \E o \in SelectorTools :
          \E v \in SelectorInputs(o) :
             /\ op' = o
             /\ arg' = v
             /\ input_data' = Wrap(o, v)
    /\ pc' = "wrapped"
    /\ UNCHANGED <<expected_keys, max_retries, retries, vret, attempt, trace, reply, result>>

\* lines 91-93
SelectorRejected ==
    /\ op \in SelectorCallers
    /\ pc = "wrapped"
    /\ ~HasKey(input_data, InputKey(SelectorTool(op)))
    /\ result' = SelectorExit(op, MissingField(SelectorTool(op)))
    /\ pc' = "done"
    /\ UNCHANGED <<op, arg, input_data, expected_keys, max_retries, retries, vret, attempt,
                   trace, reply>>

\* lines 96-97: the call of ask
SelectorAsks ==
    /\ op \in SelectorCallers
    /\ pc = "wrapped"
    /\ HasKey(input_data, InputKey(SelectorTool(op)))
    /\ attempt' = 0
    /\ pc' = "ask_loop"
    /\ UNCHANGED <<op, arg, input_data, expected_keys, max_retries, retries, vret, trace,
                   reply, result>>

\* lines 102-110
SelectorReturn ==
    /\ op \in SelectorCallers
    /\ pc = "asked"
    /\ result' = SelectorExit(op, SelectorVerdict(SelectorTool(op), reply))
    /\ pc' = "done"
    /\ UNCHANGED <<op, arg, input_data, expected_keys, max_retries, retries, vret, attempt,
                   trace, reply>>

-----------------------------------------------------------------------------
(* main_agent.py                                                           *)

\* lines 53-55: selector_agent_func(input_text) calls the ask_selector tool
CallSelectorAgent ==
    /\ op = "idle"
    /\ \E q \in Questions :
          /\ arg' = Str(q)
          /\ input_data' = Wrap("ask_selector", Dict("input" :> Str(q)))
    /\ op' = "selector_agent_func"
    /\ pc' = "wrapped"
    /\ UNCHANGED <<expected_keys, max_retries, retries, vret, attempt, trace, reply, result>>

\* lines 126-131: Send is pressed and the parent agent is invoked
CallSend ==
    /\ op = "idle"
    /\ \E q \in Questions \cup {""} : arg' = Str(q)
    /\ op' = "send"
    /\ pc' = "invoked"
    /\ UNCHANGED <<input_data, expected_keys, max_retries, retries, vret, attempt, trace,
                   reply, result>>

\* lines 127-128: nothing was typed
SendWarns ==
    /\ op = "send"
    /\ pc = "invoked"
    /\ ~Truthy(arg)
    /\ result' = None
    /\ pc' = "done"
    /\ UNCHANGED <<op, arg, input_data, expected_keys, max_retries, retries, vret, attempt,
                   trace, reply>>

\* lines 131-134: the parent agent's response and response_text
SendResponds ==
    /\ op = "send"
    /\ pc = "invoked"
    /\ Truthy(arg)
    /\ \E response \in RouterResponses :
          /\ reply' = response
          /\ result' = ResponseText(response)
    /\ pc' = "done"
    /\ UNCHANGED <<op, arg, input_data, expected_keys, max_retries, retries, vret, attempt,
                   trace>>

-----------------------------------------------------------------------------
(* create_data_handler                                                     *)

\* line 208: create_data_handler(input_data) calls the validator
CallCreate ==
    /\ op = "idle"
    /\ \E v \in CreatePayloads :
          /\ EnterValidate(v, <<"api_url", "payload">>, DefaultMaxRetries)
          /\ arg' = v
    /\ op' = "create_data_handler"
    /\ UNCHANGED <<attempt, trace, reply, result>>

\* lines 210-217: the validated input is refused
CreateRejected ==
    /\ op = "create_data_handler"
    /\ pc = "validated"
    /\ CreateChecks(input_data) # None
    /\ result' = CreateChecks(input_data)
    /\ pc' = "done"
    /\ UNCHANGED <<op, arg, input_data, expected_keys, max_retries, retries, vret, attempt,
                   trace, reply>>

\* lines 219-233: the POST and the value returned
CreatePost ==
    /\ op = "create_data_handler"
    /\ pc = "validated"
    /\ CreateChecks(input_data) = None
    /\ \E out \in CreateOutcomes :
          /\ trace' = Append(trace, HttpEvent("POST", input_data.kv["api_url"].s, out))
          /\ reply' = post_api(out)
          /\ result' = CreateVerdict(input_data, post_api(out))
    /\ pc' = "done"
    /\ UNCHANGED <<op, arg, input_data, expected_keys, max_retries, retries, vret, attempt>>

-----------------------------------------------------------------------------
(* email_agent_func                                                        *)

\* line 62
CallEmail ==
    /\ op = "idle"
    /\ \E v \in EmailInputs :
          /\ arg' = v
          /\ input_data' = v
    /\ op' = "email_agent_func"
    /\ pc' = "called"
    /\ UNCHANGED <<expected_keys, max_retries, retries, vret, attempt, trace, reply, result>>

\* lines 64-68 and 70-71: the input is refused
EmailRejected ==
    /\ op = "email_agent_func"
    /\ pc = "called"
    /\ EmailChecks(arg) # None
    /\ result' = EmailChecks(arg)
    /\ pc' = "done"
    /\ UNCHANGED <<op, arg, input_data, expected_keys, max_retries, retries, vret, attempt,
                   trace, reply>>

\* line 69 and email_agent.py lines 11-36: the delivery
EmailSend ==
    /\ op = "email_agent_func"
    /\ pc = "called"
    /\ EmailChecks(arg) = None
    /\ input_data' = Parsed(arg)
    /\ \E out \in SmtpOutcomes :
          LET recipient == Get(Parsed(arg), "recipient", Str("")).s
          IN  /\ trace' = Append(trace, HttpEvent("SMTP", recipient, out))
              /\ result' = send_email(recipient, out)
    /\ pc' = "done"
    /\ UNCHANGED <<op, arg, expected_keys, max_retries, retries, vret, attempt, reply>>

-----------------------------------------------------------------------------
Next ==
    \/ CallValidate
    \/ ValidateStrip
    \/ ValidateReturn
    \/ ValidateExceeded
    \/ CallGet
    \/ GetRejected
    \/ GetAccepted
    \/ GetAttempt
    \/ CallAsk
    \/ AskAttempt
    \/ CallDelete
    \/ DeleteRejected
    \/ DeleteLookup
    \/ DeleteNoCandidate
    \/ DeleteDelete
    \/ CallFetch
    \/ FetchRejected
    \/ FetchExact
    \/ FetchBroadened
    \/ CallSelector
    \/ SelectorRejected
    \/ SelectorAsks
    \/ SelectorReturn
    \/ CallSelectorAgent
    \/ CallSend
    \/ SendWarns
    \/ SendResponds
    \/ CallCreate
    \/ CreateRejected
    \/ CreatePost
    \/ CallEmail
    \/ EmailRejected
    \/ EmailSend

Spec == Init /\ [][Next]_vars

-----------------------------------------------------------------------------
(* Properties of validate_tool_input                                       *)

Validating == op = "validate_tool_input"

Validated == op = "validate_tool_input" /\ pc = "done"

\* the payload as a value: the text parsed, a map as it is
ArgValue == Parsed(arg)

\* r is exactly d restricted to the keys listed in ek, values unchanged
IsRestriction(r, d, ek) ==
    /\ r.t = "dict"
    /\ DOMAIN r.kv = {k \in DOMAIN d.kv : \E i \in 1..Len(ek) : ek[i] = k}
    /\ \A k \in DOMAIN r.kv : r.kv[k] = d.kv[k]

\* C1: for every payload, expected_keys and max_retries >= 0 the validator
\* makes at most max_retries stripping passes (one sleep each), every pass
\* either returns or uses up one retry, and what it returns is a map: the
\* payload or an error map.
C1_ValidateTerminates ==
    /\ [](/\ retries <= max_retries
          /\ (Validating => Len(Sleeps) = retries)
          /\ (Validated => result.t = "dict" /\ vret \in {136, 140, 153, 156}))
    /\ [][Validating /\ pc = "validate" => (pc' = "done" \/ retries' = retries + 1)]_vars

\* a run that stripped once, used up its only retry and returned
C1_Witness == Validated /\ max_retries = 1 /\ retries = 1 /\ vret = 156

\* C2: a non-error map returned for a non-empty expected_keys has only
\* keys that are in expected_keys.
C2_ReturnedKeysExpected ==
    (Validated /\ vret = 153 /\ Len(expected_keys) > 0)
        => DOMAIN result.kv \subseteq Range(expected_keys)

\* C3 as stated: a payload map with more keys than expected_keys comes back,
\* under the default max_retries, as the payload restricted to expected_keys.
C3_StripsToExpected ==
    (/\ Validated
     /\ max_retries = DefaultMaxRetries
     /\ ArgValue.t = "dict"
     /\ Cardinality(DOMAIN ArgValue.kv) > Len(expected_keys))
        => IsRestriction(result, ArgValue, expected_keys)

\* C3 amended: the same for a non-empty expected_keys (with an empty or
\* absent expected_keys the payload is returned unrestricted).
C3_StripsToNonEmptyExpected ==
    (/\ Validated
     /\ max_retries = DefaultMaxRetries
     /\ Len(expected_keys) > 0
     /\ ArgValue.t = "dict"
     /\ Cardinality(DOMAIN ArgValue.kv) > Len(expected_keys))
        => /\ IsRestriction(result, ArgValue, expected_keys)
           /\ vret = 153
           /\ retries = 1

\* the scenario {api_url, extra} with expected_keys = [api_url]
C3_Witness ==
    /\ Validated
    /\ arg = PayloadScenario
    /\ expected_keys = <<"api_url">>
    /\ max_retries = DefaultMaxRetries
    /\ result = PayloadExact

\* C4: for max_retries >= 1 the retries-exceeded error (line 156) is returned
\* only when the payload is still over-sized at that moment; a payload that
\* was repaired to fit is returned as valid.
C4_ExceededOnlyIfOversized ==
    [][(Validating /\ pc = "validate" /\ max_retries >= 1 /\ vret' = 156)
          => (input_data.t = "dict" /\ TooManyKeys(input_data, expected_keys))]_vars

\* text that is not JSON, or JSON that is not a map
BadText(v) == v.t = "str" /\ (JsonLoads(v.s) = JSONDecodeError \/ JsonLoads(v.s).t # "dict")

\* C5: a text payload that does not parse, or parses to a non-map, gets an
\* error with no stripping pass, retry or sleep; with max_retries >= 1 it is
\* the format error of the first pass.
C5_BadTextFailsAtOnce ==
    (Validating /\ BadText(arg))
        => /\ retries = 0
           /\ trace = <<>>
           /\ (pc = "done" =>
                 /\ HasKey(result, "error")
                 /\ (max_retries >= 1 =>
                       vret = IF JsonLoads(arg.s) = JSONDecodeError THEN 136 ELSE 140))

C5_Witness ==
    /\ Validated
    /\ arg = Str(TextList)
    /\ max_retries = DefaultMaxRetries
    /\ result = ErrorDict("Invalid input format. Expected JSON object.")

-----------------------------------------------------------------------------
(* Properties of the retry loops                                           *)

Getting == op = "get_data_directly"

Gets == Calls("GET")

Posts == Calls("POST")

HttpCalls == SelectSeq(trace, LAMBDA ev : ev.e # "sleep")

\* the attempt came to nothing: a timeout, an HTTP error status, a fault
Failed(out) == out.k \in {"Timeout", "fault"} \/ out.code >= 400

\* a timeout or another request failure
RequestFailed(out) == out.k = "Timeout" \/ out.code >= 400

MsgPrefixes == {"API request failed after ", "GET request failed after ",
                "Failed to fetch response after "}

MsgJoins == {" attempts: ", " attempts: Request failed: "}

\* the message names the attempt count n and ends with the failure detail
MsgCarries(msg, n, detail) ==
    \E a \in MsgPrefixes, b \in MsgJoins : msg = a \o ToString(n) \o b \o detail

\* texts that are not of the shape /api/<section>/<resource>/...
MisshapenUrls == {UrlNoResource, UrlNoApi, UrlUpperCase, UrlNoSlash, UrlDigit}

\* C6 as stated: every path that is not of the shape is answered with the
\* 'Invalid API URL format' error, no GET issued, no wait.
C6_MisshapenPathRejected ==
    (Getting /\ arg.t = "str" /\ arg.s \in MisshapenUrls \cup {UrlEmpty})
        => /\ trace = <<>>
           /\ pc # "get_loop"
           /\ (pc = "done" => result = ErrorDict("Invalid API URL format: " \o arg.s))

\* C6 amended: a non-empty text path that is not of the shape is answered
\* with 'Invalid API URL format', an empty or non-text path with 'Invalid or
\* missing api_url'; in both cases no GET is issued and nothing waits.
C6_BadPathRejected ==
    /\ (Getting /\ arg.t = "str" /\ arg.s \in MisshapenUrls)
          => /\ trace = <<>>
             /\ pc # "get_loop"
             /\ (pc = "done" => result = ErrorDict("Invalid API URL format: " \o arg.s))
    /\ (Getting /\ (arg.t # "str" \/ arg.s = UrlEmpty))
          => /\ trace = <<>>
             /\ pc # "get_loop"
             /\ (pc = "done" => result = ErrorDict("Invalid or missing api_url."))

C6_Witness ==
    /\ Getting
    /\ pc = "done"
    /\ arg = Str(UrlNoResource)
    /\ result = ErrorDict("Invalid API URL format: /api/dcim/")
    /\ trace = <<>>

\* C7: when every GET attempt fails, exactly 5 attempts are made and the
\* Error returned names the 5 attempts and the detail of the fifth failure.
C7_FiveAttemptsLastDetail ==
    Getting =>
        /\ Len(Gets) <= 5
        /\ (pc = "done" /\ Len(Gets) >= 1 /\ \A i \in 1..Len(Gets) : Failed(Gets[i].out))
              => /\ Len(Gets) = 5
                 /\ HasKey(result, "error")
                 /\ MsgCarries(result.kv["error"].s, 5, ExcText(Gets[5].out))

\* five failures of which the last differs from the ones before it
C7_Witness ==
    /\ Getting
    /\ pc = "done"
    /\ Len(Gets) = 5
    /\ \A i \in 1..4 : Gets[i].out = Http500
    /\ Gets[5].out = Timeout
    /\ result = ErrorDict("API request failed after 5 attempts: Request failed: Read timed out.")

\* C8: ask issues at most 3 POSTs; no POST follows one that did not fail; a
\* timeout or request failure before the third attempt is retried; the first
\* successful response is the result; three failures give an Error.
C8_AtMostThreePosts ==
    op \in AskOps =>
        /\ Len(Posts) <= 3
        /\ \A i \in 1..(Len(Posts) - 1) : RequestFailed(Posts[i].out)
        /\ (Len(Posts) \in 1..2 /\ RequestFailed(Posts[Len(Posts)].out)) => pc = "ask_loop"
        /\ (pc = "done" /\ Posts[Len(Posts)].out.code = 200)
              => result = Posts[Len(Posts)].out.body
        /\ (pc = "done" /\ RequestFailed(Posts[Len(Posts)].out))
              => Len(Posts) = 3 /\ HasKey(result, "error")

\* two failed attempts and a third that succeeds
C8_Witness ==
    /\ op \in AskOps
    /\ pc = "done"
    /\ Len(Posts) = 3
    /\ Posts[1].out = Timeout
    /\ Posts[2].out = Http500
    /\ result = BodyContent

\* C9: on exhaustion the Error of ask names the attempt count and carries
\* the detail of the last failed attempt.
C9_ExhaustedCarriesLastDetail ==
    (op \in AskOps /\ pc = "done" /\ Len(Posts) = 3 /\ RequestFailed(Posts[3].out))
        => /\ HasKey(result, "error")
           /\ MsgCarries(result.kv["error"].s, 3, ExcText(Posts[3].out))

\* C10: in a finished retry loop with k attempts there are exactly k-1
\* waits, each between two attempts, none after the last attempt.
C10_WaitsOnlyBetweenAttempts ==
    ((Getting \/ op \in AskOps) /\ pc = "done" /\ Len(HttpCalls) >= 1)
        => /\ Len(Sleeps) = Len(HttpCalls) - 1
           /\ trace[Len(trace)].e # "sleep"
           /\ \A i \in 1..Len(trace) :
                 trace[i].e = "sleep" => (i > 1 /\ trace[i - 1].e # "sleep")

-----------------------------------------------------------------------------
(* Properties of delete_data_handler                                       *)

Deleting == op = "delete_data_handler"

Deletes == Calls("DELETE")

\* C11: when the name lookup returns count = 0 no DELETE is ever issued and
\* the result is the Error that no resource was found with that name.
C11_NoMatchNoDelete ==
    (Deleting /\ Len(Gets) >= 1 /\ Gets[1].out = Ok(LookupNone))
        => /\ Deletes = <<>>
           /\ pc = "done"
           /\ result = ErrorDict("No resource found at '/api/circuits/providers/'"
                                 \o " with name 'Bell Canada'.")

C11_Witness ==
    /\ Deleting
    /\ pc = "done"
    /\ arg = DeleteBell
    /\ Len(trace) = 1
    /\ trace[1].e = "GET"
    /\ trace[1].out = Ok(LookupNone)
    /\ HasKey(result, "error")

\* C12: a DELETE that fails with a transport error or timeout is attempted
\* again before the handler returns its Error.
C12_FailedDeleteRetried ==
    (Deleting /\ pc = "done" /\ Len(Deletes) >= 1
        /\ \A i \in 1..Len(Deletes) : Deletes[i].out = Timeout)
        => Len(Deletes) >= 2

\* C13: the outcome of the DELETE call is handed on as it is: an Error with
\* exactly the message of the DELETE's Error, Success for its Success.
C13_DeleteOutcomeVerbatim ==
    (Deleting /\ pc = "done" /\ Len(Deletes) = 1 /\ Deletes[1].out.k # "fault")
        => /\ (Deletes[1].out = NoContent
                  => ~HasKey(result, "error") /\ Get(result, "status", None) = Str("success"))
           /\ (Deletes[1].out = Timeout
                  => result = ErrorDict("Request failed: Read timed out."))
           /\ (Deletes[1].out \in {Http404, Http500, Ok(None)}
                  => result = ErrorDict("Failed to delete. Status code: "
                                        \o ToString(Deletes[1].out.code)))
           /\ (HasKey(reply, "error") => result = reply)

\* a DELETE answered 404 after the lookup found two candidates
C13_Witness ==
    /\ Deleting
    /\ pc = "done"
    /\ Len(Deletes) = 1
    /\ Deletes[1].out = Http404
    /\ Deletes[1].url = "/api/circuits/providers/7/"
    /\ result = ErrorDict("Failed to delete. Status code: 404")

-----------------------------------------------------------------------------
(* Properties of fetch_cves_from_opencve                                   *)

Fetching == op = "fetch_cves_from_opencve"

StartsWith(s, prefix) == Len(s) >= Len(prefix) /\ SubSeq(s, 1, Len(prefix)) = prefix

\* the exact query came back with an empty result set
ExactFoundNothing ==
    /\ Len(Gets) >= 1
    /\ Gets[1].out.k = "status"
    /\ Gets[1].out.code = 200
    /\ Gets[1].out.body.t = "dict"
    /\ Get(Gets[1].out.body, "count", None) = PyInt("0")

\* C14: for vendor "Juniper Networks" and version "21.4R5" an exact query
\* with zero results is followed by exactly one further query, for vendor
\* "juniper" and version "21.4", and by no third one.
C14_JuniperFallsBackTo214 ==
    (Fetching /\ pc = "done" /\ arg = CveQuery("Juniper Networks", "21.4R5")
        /\ ExactFoundNothing)
        => /\ Len(Gets) = 2
           /\ Gets[2].url = "https://app.opencve.io/api/cve?vendor=juniper&version=21.4"

\* C15: one invocation issues at most two queries, the exact one first and
\* then at most one broadened query, which is never broadened again.
C15_AtMostOneBroadening ==
    Fetching
        => /\ Len(Gets) <= 2
           /\ Len(trace) = Len(Gets)
           /\ (Len(Gets) >= 1
                  => Gets[1].url = CveUrl(CveVendor(input_data), CveVersion(input_data)))
           /\ (Len(Gets) = 2
                  => /\ Gets[2].url # Gets[1].url
                     /\ ExactFoundNothing
                     /\ pc = "done")

\* the broadened query found nothing either and nothing more was asked
C15_Witness ==
    /\ Fetching
    /\ pc = "done"
    /\ Len(Gets) = 2
    /\ Gets[2].out = Ok(CveNone)
    /\ HasKey(result, "message")

\* a version cut to its first two dot-separated components
FirstTwoComponents(version) ==
    CASE version = "21.4R5"   -> "21.4R5"
      [] version = "21.4.1"   -> "21.4"
      [] version = "17.3"     -> "17.3"
      [] version = "4.28.3.1" -> "4.28"
      [] version = "9.3.2"    -> "9.3"

\* C16: the broadened query is issued if and only if the exact query
\* succeeded with count 0 and the version cut to its first two components
\* differs from the version; it carries that cut version and the same vendor.
C16_BroadenedIffEmptyAndShorter ==
    (Fetching /\ Len(Gets) >= 1)
        => LET version == CveVersion(input_data)
               broadened == pc = "broaden" \/ Len(Gets) = 2
           IN  /\ broadened <=> (ExactFoundNothing /\ FirstTwoComponents(version) # version)
               /\ (Len(Gets) = 2
                      => Gets[2].url = CveUrl(CveVendor(input_data), FirstTwoComponents(version)))

C16_Witness ==
    /\ Fetching
    /\ arg = CveQuery("Cisco Systems", "4.28.3.1")
    /\ Len(Gets) = 2
    /\ Gets[1].url = "https://app.opencve.io/api/cve?vendor=cisco&version=4.28.3.1"
    /\ Gets[2].url = "https://app.opencve.io/api/cve?vendor=cisco&version=4.28"

\* the alias-table image of the trimmed, lower-cased vendor
ExpectedVendor(raw) ==
    CASE raw = "Juniper Networks"   -> "juniper"
      [] raw = " JUNIPER NETWORKS " -> "juniper"
      [] raw = "juniper"            -> "juniper"
      [] raw = "Cisco Systems"      -> "cisco"
      [] raw = "cisco systems"      -> "cisco"
      [] raw = "Arista Networks"    -> "arista"
      [] raw = "ARISTA"             -> "arista"
      [] raw = "Palo Alto"          -> "palo alto"

\* C17: the vendor of every query is the alias-table image of the trimmed,
\* lower-cased input vendor, a vendor outside the table is used lower-cased,
\* and normalizing a normalized vendor changes nothing.
C17_VendorNormalized ==
    /\ Fetching
          => \A i \in 1..Len(Gets) :
                StartsWith(Gets[i].url,
                           "https://app.opencve.io/api/cve?vendor="
                               \o ExpectedVendor(input_data.kv["vendor"].s) \o "&version=")
    /\ \A raw \in CveVendors : NormalizeVendor(NormalizeVendor(raw)) = NormalizeVendor(raw)

C17_Witness ==
    /\ Fetching
    /\ arg = CveQuery(" JUNIPER NETWORKS ", "21.4.1")
    /\ Len(Gets) = 2
    /\ Gets[1].url = "https://app.opencve.io/api/cve?vendor=juniper&version=21.4.1"
    /\ Gets[2].url = "https://app.opencve.io/api/cve?vendor=juniper&version=21.4"

\* the records handed back and the records of the backend reply they come from
Returned == Items(result.kv["cves"])

Received == Items(reply.kv["results"])

ReturnsRecords == Fetching /\ pc = "done" /\ HasKey(result, "cves")

\* C18 as stated: at most 10 records, the first 10 in backend order, every
\* description longer than 200 characters truncated and no returned
\* description longer than 200 characters.
C18_DescriptionsWithinCap ==
    ReturnsRecords
        => /\ Len(Returned) <= RecordCap
           /\ \A i \in 1..Len(Returned) :
                 /\ Returned[i].kv["cve_id"] = Received[i].kv["cve_id"]
                 /\ Len(Returned[i].kv["description"].s) <= DescriptionCap

\* C18: at most 10 records are returned, the first 10 in backend order, and
\* each description is the first 200 characters of the backend's followed by
\* "...", so none is longer than 203 characters.
C18_CappedWithEllipsis ==
    ReturnsRecords
        => /\ Len(Returned) <= RecordCap
           /\ Len(Returned) = (IF Len(Received) < RecordCap THEN Len(Received) ELSE RecordCap)
           /\ \A i \in 1..Len(Returned) :
                 LET sent == Received[i].kv["description"].s
                     got == Returned[i].kv["description"].s
                 IN  /\ Returned[i].kv["cve_id"] = Received[i].kv["cve_id"]
                     /\ got = (IF Len(sent) > DescriptionCap
                               THEN SubSeq(sent, 1, DescriptionCap) ELSE sent) \o "..."
                     /\ Len(got) <= DescriptionCap + 3

\* eleven records came back, ten were returned, the first one cut
C18_Witness ==
    /\ ReturnsRecords
    /\ Len(Received) > RecordCap
    /\ Len(Returned) = RecordCap
    /\ Len(Received[1].kv["description"].s) > DescriptionCap
    /\ Len(Returned[1].kv["description"].s) = DescriptionCap + 3

-----------------------------------------------------------------------------
(* Properties of ask_selector and ask_selector_raw                         *)

Selecting == op \in SelectorTools

\* the analytics call has returned to the tool and the tool has returned
Answered == Selecting /\ pc = "done" /\ Len(Posts) >= 1 /\ result.t # "raise"

LastPost == Posts[Len(Posts)]

\* every POST of the call failed with a timeout or an error status
AllPostsFailed == \A i \in 1..Len(Posts) : Posts[i].out \in {Timeout, Http500}

\* C19: an Error returned by the analytics call is returned by ask_selector
\* and ask_selector_raw as the same value, with no field extracted from it.
C19_UpstreamErrorUnchanged ==
    Answered
        => /\ (AllPostsFailed
                  => result = ErrorDict("Failed to fetch response after 3 attempts."))
           /\ (LastPost.out = Ok(BodyError) => result = BodyError)
           /\ (HasKey(reply, "error") => result = reply)

\* the raw-data tool hands on the Error of three failed attempts
C19_Witness ==
    /\ op = "ask_selector_raw"
    /\ pc = "done"
    /\ Len(Posts) = 3
    /\ AllPostsFailed
    /\ reply = ErrorDict("Failed to fetch response after 3 attempts.")
    /\ result = reply

\* C20: of a successful analytics response ask_selector returns exactly the
\* 'content' field and ask_selector_raw exactly the 'data' field, and the
\* string "No valid response received." when that field is absent.
C20_ExtractsFieldOrSentinel ==
    Answered
        => /\ (op = "ask_selector" /\ LastPost.out = Ok(BodyContent)
                  => result = Str("All devices are healthy."))
           /\ (op = "ask_selector" /\ LastPost.out = Ok(BodyData)
                  => result = Str("No valid response received."))
           /\ (op = "ask_selector_raw" /\ LastPost.out = Ok(BodyData)
                  => result = List(<<PyInt("1"), PyInt("2")>>))
           /\ (op = "ask_selector_raw" /\ LastPost.out = Ok(BodyContent)
                  => result = Str("No valid response received."))

\* the raw-data tool extracts 'data' after one failed attempt
C20_Witness ==
    /\ op = "ask_selector_raw"
    /\ pc = "done"
    /\ Len(Posts) = 2
    /\ Posts[1].out = Timeout
    /\ LastPost.out = Ok(BodyData)
    /\ result = PyList

\* the natural-language tool finds no 'content' and answers with the sentinel
C20_WitnessSentinel ==
    /\ op = "ask_selector"
    /\ pc = "done"
    /\ Len(Posts) >= 1
    /\ LastPost.out = Ok(BodyData)
    /\ result = Str("No valid response received.")

-----------------------------------------------------------------------------
(* Properties of main_agent.py                                             *)

\* C21: whatever a sub-agent returns, the caller gets an envelope whose
\* output is a string, a placeholder for an unrecognized shape, and no type
\* fault is raised.
C21_UniformEnvelope ==
    /\ (op = "selector_agent_func" /\ pc = "done")
          => /\ HasKey(result, "output")
             /\ result.kv["output"].t = "str"
    /\ (op = "send" /\ pc = "done" /\ Truthy(arg)) => result.t = "str"

-----------------------------------------------------------------------------
(* Properties of the tool functions and of create_data_handler             *)

Creating == op = "create_data_handler"

\* C22: get_data_directly, create_data_handler, delete_data_handler and
\* fetch_cves_from_opencve return a Success or Error value for every
\* argument; no exception leaves them.
C22_NoExceptionEscapes ==
    op \in {"get_data_directly", "create_data_handler", "delete_data_handler",
            "fetch_cves_from_opencve"}
        => result.t # "raise"

\* C23: when the POST of create_data_handler fails the result is an Error;
\* status 'success' is returned only for a POST answered with a 2xx status.
C23_FailedPostIsError ==
    (Creating /\ pc = "done" /\ Len(Posts) = 1)
        => /\ (RequestFailed(Posts[1].out) => HasKey(result, "error"))
           /\ (Get(result, "status", None) = Str("success")
                  => Posts[1].out.k = "status" /\ Posts[1].out.code \in 200..299)

\* C24: one NetBoxController.delete_api call yields Error for every non-2xx
\* status and every transport failure, Success('deletion successful') for
\* status 204 and Success for any other 2xx status.
C24_DeleteCallOutcome ==
    (Deleting /\ pc = "done" /\ Len(Deletes) = 1 /\ Deletes[1].out.k # "fault")
        => LET out == Deletes[1].out
           IN  /\ (out.k = "Timeout" \/ out.code \notin 200..299 => HasKey(reply, "error"))
               /\ (out.code = 204
                      => reply = Dict(("status" :> Str("success"))
                                      @@ ("message" :> Str("Deletion successful."))))
               /\ (out.k = "status" /\ out.code \in 200..299 => ~HasKey(reply, "error"))

-----------------------------------------------------------------------------
(* Properties of email_agent_func                                          *)

Mailing == op = "email_agent_func"

Deliveries == Calls("SMTP")

\* the parsed input is a map with 'recipient', 'subject' and 'message'
WellFormedEmail ==
    /\ ArgValue.t = "dict"
    /\ {"recipient", "subject", "message"} \subseteq DOMAIN ArgValue.kv

\* C25: email_agent_func delegates to delivery only for a (parsed) map with
\* 'recipient', 'subject' and 'message'; for any other input delivery is
\* never invoked and an error status is returned.
C25_DeliveryOnlyWhenWellFormed ==
    Mailing
        => /\ (Deliveries # <<>> => WellFormedEmail)
           /\ (pc = "done" /\ WellFormedEmail => Len(Deliveries) = 1)
           /\ (pc = "done" /\ ~WellFormedEmail
                  => /\ Deliveries = <<>>
                     /\ Get(result, "status", None) = Str("error"))

\* a text argument is parsed and delivered
C25_Witness ==
    /\ Mailing
    /\ pc = "done"
    /\ arg = Str(TextEmail)
    /\ Len(Deliveries) = 1
    /\ Deliveries[1].url = "noc@example.com"
    /\ result = Dict(("status" :> Str("success"))
                     @@ ("message" :> Str("Email sent to noc@example.com")))

\* the field is absent from the argument or holds only blanks
Blank(d, key) == ~HasKey(d, key) \/ (d.kv[key].t = "str" /\ d.kv[key].s \in {"", "   "})

\* C26: when the vendor or the version is absent or empty after trimming,
\* fetch_cves_from_opencve returns an Error and issues no query at all.
C26_NoQueryWithoutVendorOrVersion ==
    (Fetching /\ pc # "called" /\ arg.t = "dict"
        /\ (Blank(arg, "vendor") \/ Blank(arg, "version")))
        => /\ pc = "done"
           /\ trace = <<>>
           /\ result = ErrorDict("Missing 'vendor' or 'version' field.")

\* a version of blanks only
C26_Witness ==
    /\ Fetching
    /\ pc = "done"
    /\ arg = CveQuery("Juniper Networks", "   ")
    /\ trace = <<>>
    /\ HasKey(result, "error")

\* the positions of the trace that hold a call of the method
Positions(method) == {i \in 1..Len(trace) : trace[i].e = method}

\* C27: a run of delete_data_handler issues at most one lookup GET and at
\* most one DELETE; the DELETE comes only after a lookup that returned
\* count >= 1, and its path is the resource path with the identifier of the
\* first returned candidate appended.
C27_LookupThenDelete ==
    Deleting
        => /\ Len(Gets) <= 1
           /\ Len(Deletes) <= 1
           /\ (Len(Deletes) = 1
                  => /\ Len(Gets) = 1
                     /\ \A i \in Positions("GET"), j \in Positions("DELETE") : i < j
                     /\ Gets[1].out.k = "status"
                     /\ Gets[1].out.code = 200
                     /\ Get(Gets[1].out.body, "count", None) \in {PyInt("1"), PyInt("2")}
                     /\ Gets[1].url = "/api/circuits/providers/"
                     /\ Deletes[1].url = "/api/circuits/providers/7/")

\* two candidates matched and the first one was deleted
C27_Witness ==
    /\ Deleting
    /\ pc = "done"
    /\ Len(Gets) = 1
    /\ Gets[1].out = Ok(LookupTwo)
    /\ Len(Deletes) = 1
    /\ Deletes[1].url = "/api/circuits/providers/7/"
    /\ Deletes[1].out = NoContent
    /\ Get(result, "status", None) = Str("success")

-----------------------------------------------------------------------------
(* Further properties of get_data_directly and validate_tool_input         *)

\* the GET came back with a body that is not an error report
Succeeded(out) ==
    /\ out.k = "status"
    /\ out.code = 200
    /\ ~(HasKey(out.body, "error") /\ Truthy(out.body.kv["error"]))

\* C28: if the first successful GET of get_data_directly is attempt k,
\* exactly k GETs are made, the attempt counter stays within 1..5, and the
\* result is Success carrying that attempt's response; no attempt follows a
\* success.
C28_StopsAtFirstSuccess ==
    (Getting /\ Len(Gets) >= 1)
        => /\ attempt \in 1..5
           /\ Len(Gets) <= 5
           /\ \A i \in 1..(Len(Gets) - 1) : ~Succeeded(Gets[i].out)
           /\ (pc = "get_loop" => attempt = Len(Gets) + 1)
           /\ (Succeeded(Gets[Len(Gets)].out)
                  => /\ pc = "done"
                     /\ attempt = Len(Gets)
                     /\ result = Dict(("status" :> Str("success"))
                                      @@ ("message" :> Str("Data fetched successfully."))
                                      @@ ("data" :> Gets[Len(Gets)].out.body)))

\* the fourth attempt is the first to succeed
C28_Witness ==
    /\ Getting
    /\ pc = "done"
    /\ Len(Gets) = 4
    /\ attempt = 4
    /\ Gets[3].out = Timeout
    /\ Gets[4].out = Ok(BodyInterfaces)
    /\ Get(result, "data", None) = BodyInterfaces

\* C29: one invocation of create_data_handler issues at most one POST,
\* whatever its outcome, and none when api_url is missing or payload is not
\* a map.
C29_AtMostOnePost ==
    Creating
        => /\ Len(Posts) <= 1
           /\ Len(HttpCalls) = Len(Posts)
           /\ (Len(Posts) = 1 => pc = "done")
           /\ (ArgValue.t # "dict" \/ ~Truthy(Get(ArgValue, "api_url", None))
                  \/ Get(ArgValue, "payload", None).t # "dict")
                 => Posts = <<>>

\* a create answered 500 is not tried again
C29_Witness ==
    /\ Creating
    /\ pc = "done"
    /\ arg = DeleteBell
    /\ Len(Posts) = 1
    /\ Posts[1].out = Http500
    /\ Posts[1].url = "/api/circuits/providers/"

\* the functions that run validate_tool_input
Validates ==
    op \in {"validate_tool_input", "get_data_directly", "create_data_handler",
            "delete_data_handler"}

\* C30: for max_retries >= 2 validate_tool_input strips a payload at most
\* once: the stripped map has no more keys than expected_keys and the next
\* pass returns it, so the retries-exceeded error cannot occur.
C30_AtMostOneStrip ==
    (Validates /\ max_retries >= 2)
        => /\ retries <= 1
           /\ vret # 156
           /\ (retries = 1
                  => /\ input_data.t = "dict"
                     /\ Cardinality(DOMAIN input_data.kv) <= Len(expected_keys)
                     /\ result # ErrorDict("Too many arguments provided, and retries exceeded."))

\* a payload of three keys stripped once and returned with max_retries = 2
C30_Witness ==
    /\ Validated
    /\ max_retries = 2
    /\ retries = 1
    /\ arg = PayloadThree
    /\ expected_keys = <<"api_url", "payload">>
    /\ result.t = "dict"
    /\ ~HasKey(result, "error")

\* C31: when the lookup GET of delete_data_handler itself fails (transport
\* failure or HTTP error status), no DELETE is issued and the handler
\* returns an Error.
C31_FailedLookupNoDelete ==
    (Deleting /\ Len(Gets) >= 1 /\ RequestFailed(Gets[1].out))
        => /\ Deletes = <<>>
           /\ Len(HttpCalls) = 1
           /\ pc = "done"
           /\ HasKey(result, "error")
           /\ ~HasKey(result, "status")

\* the lookup is answered 500 and the handler stops with an Error
C31_Witness ==
    /\ Deleting
    /\ pc = "done"
    /\ arg = DeleteBell
    /\ Len(Gets) = 1
    /\ Gets[1].out = Http500
    /\ Deletes = <<>>
    /\ reply = ErrorDict("Request failed: 500 Server Error")
    /\ HasKey(result, "error")

====
